---------------------------- MODULE Spec2Model ----------------------------
(***************************************************************************)
(* Model of the differential execution and diff aggregation engine of      *)
(* flaker (src/src/diffing.rs): the log parser, the message normaliser,    *)
(* the per-file differ, the bounded-concurrency scheduler and the          *)
(* aggregator.                                                             *)
(*                                                                         *)
(* Representation.                                                         *)
(*   Option<T>     None is <<>>, Some(x) is <<x>>.                        *)
(*   Message       a sequence of text chunks; the literal                  *)
(*                 "--extra-deprecated-features" is one chunk, every other *)
(*                 chunk is one character.                                 *)
(*   stderr        the sequence of its lines (the text between the "\n"    *)
(*                 separators); a line is [head, tail, utf8]: head is the  *)
(*                 text of its first (at most four) bytes, tail is None    *)
(*                 when the line has fewer than five bytes and otherwise   *)
(*                 Some of the text after byte 5, utf8 tells whether the   *)
(*                 bytes of the line are valid UTF-8.                      *)
(*   JSON text     [obj, entry]: obj tells whether serde_json accepts the  *)
(*                 text as a LogEntry, entry is the LogEntry it yields.    *)
(*   CompLog       a function from Message to the positions of its Finds.  *)
(***************************************************************************)
EXTENDS Integers, Sequences, FiniteSets, TLC

VARIABLES
    pc,          \* position of the running operation
    comp_a,      \* Diff::from : first CompLog
    comp_b,      \* Diff::from : second CompLog
    comp_diff,   \* Diff::from : the Diff<CompLog> returned
    err_a,       \* diff_stderr : stderr of parser A (decoded)
    err_b,       \* diff_stderr : stderr of parser B (decoded)
    stderr_out,  \* diff_stderr : what it returned (or that it panicked)
    result_a,    \* diff_file : what the runner of parser A resolved to
    result_b,    \* diff_file : what the runner of parser B resolved to
    file_out,    \* diff_file : what it returned (or that it panicked)
    outputs,     \* diff_parsers : per walked file, what the two parsers will produce
    next,        \* diff_parsers : index of the next walked file to hand to diff_file
    task,        \* diff_parsers : per walked file, the state of its diff_file future
    alive,       \* diff_parsers : per walked file, the number of its live child processes
    killed,      \* diff_parsers : number of child processes killed by a drop
    diffs,       \* diff_parsers : the collected Vec<ParserDiff>
    run,         \* diff_parsers : state of the whole run
    result,      \* diff_parsers : the DiffResult returned
    norm_in,     \* simplify_msg : the message handed in
    norm_out,    \* simplify_msg : the message returned
    norm_again,  \* simplify_msg : what a second call returns for the first result
    split_out,   \* split_stderr : the three CompLogs returned (or that it panicked)
    merged,      \* DiffResult::from : the accumulator of the reduce
    idx,         \* DiffResult::from : index of the next ParserDiff to merge
    reports,     \* report : the report files given, whether each loads
    verbosity,   \* report : the verbosity asked for
    resolved,    \* report : the verbosity in force once Auto is resolved
    loaded,      \* report : the repositories added to the Report so far
    printed      \* report : the verbosity print_report was called with, once it was

fnvars == <<comp_a, comp_b, comp_diff, err_a, err_b, stderr_out, result_a, result_b, file_out>>
schedvars == <<outputs, next, task, alive, killed, diffs, run, result>>
normvars == <<norm_in, norm_out, norm_again>>
foldvars == <<merged, idx>>
reportvars == <<reports, verbosity, resolved, loaded, printed>>
auxvars == <<normvars, split_out, foldvars, reportvars>>
vars == <<pc, fnvars, schedvars, auxvars>>

None == <<>>
Some(x) == <<x>>
IsSome(o) == o # <<>>
Unwrap(o) == o[1]

EmptyLog == [m \in {} |-> {}]

---------------------------------------------------------------------------
(* Message normaliser                                                      *)

FLAG == "--extra-deprecated-features"
DEP == "Deprecated Feature: "

\* \w of the regex crate is Unicode-aware: letters and digits of any script and "_"
\* ("U+00E9" stands for the one character e-acute).
IsWordChar(t) == t \in {"a", "b", "7", "_", "U+00E9"}
\* [\w-]: the chunk FLAG is made of such characters only.
IsNameTok(t) == IsWordChar(t) \/ t = "-" \/ t = FLAG
FirstIsWord(t) == IsWordChar(t)
LastIsWord(t) == IsWordChar(t) \/ t = FLAG

\* \b between chunk j and chunk j+1 of msg (j = Len(msg) is the end of the text).
WordBoundary(msg, j) ==
    LET left == j >= 1 /\ LastIsWord(msg[j])
        right == j + 1 <= Len(msg) /\ FirstIsWord(msg[j + 1])
    IN left # right

\* Where the greedy [\w-]+ started at s stops once the trailing \b is satisfied
\* (the longest candidate wins, shorter ones are tried on backtracking); 0 if none.
NameEndGreedy(msg, s) ==
    LET ends == {j \in s..Len(msg) : \A k \in s..j : IsNameTok(msg[k])}
    IN IF ends = {} THEN 0 ELSE CHOOSE j \in ends : \A k \in ends : k <= j
NameEnd(msg, s) ==
    LET ends == {j \in s..Len(msg) :
                    /\ \A k \in s..j : IsNameTok(msg[k])
                    /\ WordBoundary(msg, j)}
    IN IF ends = {} THEN 0 ELSE CHOOSE j \in ends : \A k \in ends : k <= j

\* Start positions at which DEP_FINDER_RE matches.
Matches(msg) ==
    {i \in 1..Len(msg) :
        /\ msg[i] = FLAG
        /\ i + 1 <= Len(msg)
        /\ msg[i + 1] = " "
        /\ NameEnd(msg, i + 2) # 0}

simplify_msgWholeMatch(msg) ==
    IF Matches(msg) = {} THEN msg
    ELSE LET i == CHOOSE i \in Matches(msg) : \A k \in Matches(msg) : i <= k
         IN <<DEP>> \o SubSeq(msg, i, NameEnd(msg, i + 2))
simplify_msg(msg) ==
    IF Matches(msg) = {} THEN msg
    ELSE LET i == CHOOSE i \in Matches(msg) : \A k \in Matches(msg) : i <= k
         IN <<DEP>> \o SubSeq(msg, i + 2, NameEnd(msg, i + 2))

---------------------------------------------------------------------------
(* Log parser                                                              *)

LogEntry(action, file, level, msg, raw_msg) ==
    [action |-> action, file |-> file, level |-> level, msg |-> msg, raw_msg |-> raw_msg]

\* hm.entry(key).or_insert(Default::default()).positions.insert(pos)
EntryInsertExistingOnly(hm, key, pos) ==
    [k \in DOMAIN hm \cup {key} |->
        IF k \in DOMAIN hm
        THEN (IF k = key THEN hm[k] \cup {pos} ELSE hm[k])
        ELSE {}]
EntryInsertOverwrite(hm, key, pos) ==
    [k \in DOMAIN hm \cup {key} |-> IF k = key THEN {pos} ELSE hm[k]]
EntryInsert(hm, key, pos) ==
    [k \in DOMAIN hm \cup {key} |->
        IF k \in DOMAIN hm
        THEN (IF k = key THEN hm[k] \cup {pos} ELSE hm[k])
        ELSE {pos}]

RECURSIVE DedupFold(_, _, _, _)
DedupFold(entries, i, fp, hm) ==
    IF i > Len(entries) THEN hm
    ELSE LET entr == entries[i]
             key == simplify_msg(IF IsSome(entr.raw_msg) THEN Unwrap(entr.raw_msg) ELSE entr.msg)
             pos == IF IsSome(entr.file) THEN Unwrap(entr.file) ELSE fp
         IN DedupFold(entries, i + 1, fp, EntryInsert(hm, key, pos))

dedup_log(entries, file) == DedupFold(entries, 1, file, EmptyLog)

\* line.get(0..4): None when the line has fewer than four bytes.
Get04(line) == IF Len(line.head) = 4 THEN Some(line.head) ELSE None
\* line.get(5..): None when the line has fewer than five bytes.
Get5(line) == line.tail
\* serde_json::from_str::<LogEntry>(j)
from_str(j) == IF j.obj THEN Some(j.entry) ELSE None

\* The for_each over the lines: the entries pushed to logs, or the panic of the
\* first line that has none of the supported shapes.
RECURSIVE ParseLines(_, _, _)
ParseLines(lines, i, logs) ==
    IF i > Len(lines) THEN [tag |-> "Ok", logs |-> logs]
    ELSE LET line == lines[i]
             p == Get04(line)
         IN IF p = Some("@nix")
            THEN IF ~IsSome(Get5(line))
                 THEN [tag |-> "Panic", logs |-> <<>>]          \* unwrap() of None
                 ELSE LET v == from_str(Unwrap(Get5(line)))
                      IN IF IsSome(v)
                         THEN IF Unwrap(v).action # "msg"
                              THEN [tag |-> "Panic", logs |-> <<>>]  \* todo!("new action type")
                              ELSE ParseLines(lines, i + 1, Append(logs, Unwrap(v)))
                         ELSE ParseLines(lines, i + 1, logs)  \* error logged, line skipped
            ELSE IF IsSome(p)
                 THEN [tag |-> "Panic", logs |-> <<>>]          \* todo!("new type")
                 ELSE ParseLines(lines, i + 1, logs)

IsErr(e) == e.level = 0
IsWarn(e) == e.level # 0 /\ e.level = 1
IsTrace(e) == e.level # 0 /\ e.level # 1

split_stderr(stderr, file) ==
    LET parsed == ParseLines(stderr, 1, <<>>)
    IN IF parsed.tag = "Panic"
       THEN [tag |-> "Panic", err |-> EmptyLog, warn |-> EmptyLog, trace |-> EmptyLog]
       ELSE [tag |-> "Ok",
             err |-> dedup_log(SelectSeq(parsed.logs, IsErr), file),
             warn |-> dedup_log(SelectSeq(parsed.logs, IsWarn), file),
             trace |-> dedup_log(SelectSeq(parsed.logs, IsTrace), file)]

---------------------------------------------------------------------------
(* Diff<CompLog>                                                           *)

Diff(a, b) == [result_a |-> a, result_b |-> b]

\* extract: a key of a gets an entry when b lacks the key (all of a's positions)
\* or when some position of a[key] is not in b[key] (those positions).
extractAllKeys(a, b) ==
    [key \in DOMAIN a |-> IF key \in DOMAIN b THEN a[key] \ b[key] ELSE a[key]]
extractSharedOnly(a, b) ==
    LET keys == {key \in DOMAIN a : key \in DOMAIN b /\ a[key] \ b[key] # {}}
    IN [key \in keys |-> a[key] \ b[key]]
extract(a, b) ==
    LET keys == {key \in DOMAIN a : key \notin DOMAIN b \/ a[key] \ b[key] # {}}
    IN [key \in keys |-> IF key \in DOMAIN b THEN a[key] \ b[key] ELSE a[key]]

DiffFrom(a, b) == Diff(extract(a, b), extract(b, a))

---------------------------------------------------------------------------
(* diff_stderr                                                             *)

\* (a != b).then_some(Diff::from(a, b))
LogFacetAlways(a, b) == Some(DiffFrom(a, b))
LogFacet(a, b) == IF a # b THEN Some(DiffFrom(a, b)) ELSE None

NoLogDiff == [tag |-> "Ok", err |-> None, warn |-> None, trace |-> None]

diff_stderr(ea, eb, file) ==
    IF ea # eb
    THEN LET sa == split_stderr(ea, file)
             sb == split_stderr(eb, file)
         IN IF sa.tag = "Panic" \/ sb.tag = "Panic"
            THEN [tag |-> "Panic", err |-> None, warn |-> None, trace |-> None]
            ELSE [tag |-> "Ok",
                  err |-> LogFacet(sa.err, sb.err),
                  warn |-> LogFacet(sa.warn, sb.warn),
                  trace |-> LogFacet(sa.trace, sb.trace)]
    ELSE NoLogDiff

---------------------------------------------------------------------------
(* Process results                                                         *)

\* std::process::ExitStatus: a normal exit with a code, or death by a signal.
Exited(c) == [signal |-> FALSE, n |-> c]
Signaled(s) == [signal |-> TRUE, n |-> s]
success(status) == ~status.signal /\ status.n = 0
code(status) == IF status.signal THEN None ELSE Some(status.n)

Output(status, out, err) == [status |-> status, stdout |-> out, stderr |-> err]
NoOutput == Output(Exited(0), <<>>, <<>>)
\* io::Result<Output> of Command::output()
RunOk(o) == [tag |-> "Ok", out |-> o]
RunErr == [tag |-> "Err", out |-> NoOutput]

\* String::from_utf8 on bytes: ASCII bytes are one character each, a lead byte
\* 0xC2..0xDF takes one continuation byte 0x80..0xBF, anything else is invalid.
RECURSIVE Utf8Decode(_, _, _)
Utf8Decode(bytes, i, acc) ==
    IF i > Len(bytes) THEN Some(acc)
    ELSE IF bytes[i] < 128 THEN Utf8Decode(bytes, i + 1, Append(acc, bytes[i]))
    ELSE IF /\ bytes[i] \in 194..223
            /\ i + 1 <= Len(bytes)
            /\ bytes[i + 1] \in 128..191
         THEN Utf8Decode(bytes, i + 2, Append(acc, (bytes[i] - 192) * 64 + (bytes[i + 1] - 128)))
         ELSE None

from_utf8(bytes) == Utf8Decode(bytes, 1, <<>>)

\* String::from_utf8 on a captured stderr: fails when some line holds invalid bytes.
StderrUtf8Lossy(stderr) == TRUE
StderrUtf8(stderr) == \A i \in 1..Len(stderr) : stderr[i].utf8

---------------------------------------------------------------------------
(* diff_file                                                               *)

ParserDiff(p, e, s, er, w, t) ==
    [pass_eq |-> p, exit_eq |-> e, stdout_eq |-> s, err_eq |-> er, warn_eq |-> w, trace_eq |-> t]

DefaultParserDiff == ParserDiff(None, None, None, None, None, None)

FileOk(v) == [tag |-> "Ok", val |-> v]
FileErr == [tag |-> "Err", val |-> None]
FilePanic == [tag |-> "Panic", val |-> None]

\* result_a != result_b (Output derives PartialEq over status, stdout, stderr)
ResultsDifferAlways(a, b) == TRUE
ResultsDiffer(a, b) == a # b

\* let pass = result_a.status.success() && result_b.status.success();
PassSameSuccess(a, b) == success(a.status) = success(b.status)
Pass(a, b) == success(a.status) /\ success(b.status)

\* let exit = result_a.status == result_b.status;
ExitSameCode(a, b) == code(a.status) = code(b.status)
Exit(a, b) == a.status = b.status

\* let stdout = result_a.stdout == result_b.stdout;
Stdout(a, b) == a.stdout = b.stdout

diff_file(file, ra, rb) ==
    IF ra.tag = "Err" \/ rb.tag = "Err" THEN FileErr            \* result_a?, result_b?
    ELSE LET a == ra.out
             b == rb.out
         IN IF ~ResultsDiffer(a, b) THEN FileOk(None)
            ELSE IF ~StderrUtf8(a.stderr) \/ ~StderrUtf8(b.stderr) THEN FileErr
            ELSE LET logs == diff_stderr(a.stderr, b.stderr, file)
                 IN IF logs.tag = "Panic" THEN FilePanic
                    ELSE IF /\ ~Stdout(a, b)
                            /\ (~IsSome(from_utf8(a.stdout)) \/ ~IsSome(from_utf8(b.stdout)))
                         THEN FileErr
                    ELSE FileOk(Some(ParserDiff(
                            IF ~Pass(a, b)
                                THEN Some(Diff(success(a.status), success(b.status))) ELSE None,
                            IF ~Exit(a, b)
                                THEN Some(Diff(code(a.status), code(b.status))) ELSE None,
                            IF ~Stdout(a, b)
                                THEN Some(Diff(Unwrap(from_utf8(a.stdout)), Unwrap(from_utf8(b.stdout))))
                                ELSE None,
                            logs.err, logs.warn, logs.trace)))

---------------------------------------------------------------------------
(* Aggregator                                                              *)

\* HashMap::extend: a key of the incoming map replaces the entry held for it.
ExtendUnion(m, n) ==
    [k \in DOMAIN m \cup DOMAIN n |->
        IF k \in DOMAIN m /\ k \in DOMAIN n THEN m[k] \cup n[k]
        ELSE IF k \in DOMAIN n THEN n[k] ELSE m[k]]
Extend(m, n) == [k \in DOMAIN m \cup DOMAIN n |-> IF k \in DOMAIN n THEN n[k] ELSE m[k]]

\* Diff<CompLog>::merge
CompLogMerge(a, b) == Diff(Extend(a.result_a, b.result_a), Extend(a.result_b, b.result_b))

\* merge_complog!
merge_complog(a, b) ==
    IF IsSome(a) /\ IsSome(b) THEN Some(CompLogMerge(Unwrap(a), Unwrap(b)))
    ELSE IF ~IsSome(a) THEN b
    ELSE a

\* "Multiple given", as the characters of a String
MultipleGiven == <<77, 117, 108, 116, 105, 112, 108, 101, 32, 103, 105, 118, 101, 110>>

\* the first-wins facets pass_eq and exit_eq
LastWins(a, b) == IF IsSome(b) THEN b ELSE a
FirstWins(a, b) == IF ~IsSome(a) /\ IsSome(b) THEN b ELSE a

StdoutMergeFirstWins(a, b) == IF ~IsSome(a) THEN b ELSE a
StdoutMerge(a, b) ==
    IF IsSome(a) /\ IsSome(b) THEN Some(Diff(MultipleGiven, MultipleGiven))
    ELSE IF ~IsSome(a) THEN b
    ELSE a

\* ParserDiff::merge
ParserDiffMerge(acc, other) ==
    ParserDiff(FirstWins(acc.pass_eq, other.pass_eq),
               FirstWins(acc.exit_eq, other.exit_eq),
               StdoutMerge(acc.stdout_eq, other.stdout_eq),
               merge_complog(acc.err_eq, other.err_eq),
               merge_complog(acc.warn_eq, other.warn_eq),
               merge_complog(acc.trace_eq, other.trace_eq))

\* diffs.into_iter().reduce(|acc, diff| { acc.merge(diff); acc })
RECURSIVE Reduce(_, _, _)
Reduce(ds, i, acc) ==
    IF i > Len(ds) THEN acc ELSE Reduce(ds, i + 1, ParserDiffMerge(acc, ds[i]))

propagate_msgSharedKeys(log) ==
    IF ~IsSome(log) THEN EmptyLog
    ELSE LET a == Unwrap(log).result_a
             b == Unwrap(log).result_b
         IN [msg \in DOMAIN a \cap DOMAIN b |-> Diff(a[msg], b[msg])]
propagate_msg(log) ==
    IF ~IsSome(log) THEN EmptyLog
    ELSE LET a == Unwrap(log).result_a
             b == Unwrap(log).result_b
         IN [msg \in DOMAIN a \cup DOMAIN b |->
                Diff(IF msg \in DOMAIN a THEN a[msg] ELSE {},
                     IF msg \in DOMAIN b THEN b[msg] ELSE {})]

DefaultDiffResult == [err_diff |-> EmptyLog, wrn_diff |-> EmptyLog, trc_diff |-> EmptyLog]

\* DiffResult::from
DiffResultFrom(ds) ==
    IF Len(ds) = 0 THEN DefaultDiffResult
    ELSE LET rep == Reduce(ds, 2, ds[1])
         IN [err_diff |-> propagate_msg(rep.err_eq),
             wrn_diff |-> propagate_msg(rep.warn_eq),
             trc_diff |-> propagate_msg(rep.trace_eq)]

---------------------------------------------------------------------------
(* Inputs                                                                  *)

MaxPositions == 2
MaxLines == 2
MaxExitCode == 1

\* The path of the input file handed to diff_file.
InputFile == "pkg.nix"

Positions == {"p" \o ToString(i) : i \in 1..MaxPositions}
DiffMsgs == {<<"a">>, <<"b">>}
\* CompLogs as dedup_log builds them: every key has at least one position.
CompLogs == UNION {[D -> (SUBSET Positions) \ {{}}] : D \in SUBSET DiffMsgs}

Line(head, tail, utf8) == [head |-> head, tail |-> tail, utf8 |-> utf8]
JsonOk(entry) == [obj |-> TRUE, entry |-> entry]
JsonBad == [obj |-> FALSE, entry |-> LogEntry("", None, 0, <<>>, None)]
RecLine(entry) == Line("@nix", Some(JsonOk(entry)), TRUE)

MsgSyntax == <<"a">>
MsgOther == <<"b">>
MsgDep == <<"a", " ", FLAG, " ", "b", "-", "7", " ">>

LineErr == RecLine(LogEntry("msg", None, 0, MsgSyntax, None))
LineErrAt == RecLine(LogEntry("msg", Some("lib.nix"), 0, MsgOther, Some(MsgSyntax)))
LineWarn == RecLine(LogEntry("msg", None, 1, MsgDep, None))
LineTrace == RecLine(LogEntry("msg", None, 3, MsgSyntax, None))
LineStart == RecLine(LogEntry("start", None, 0, MsgSyntax, None))
LineBadJson == Line("@nix", Some(JsonBad), TRUE)      \* "@nix {oops"
LineNoRest == Line("@nix", None, TRUE)                \* "@nix" and nothing after it
LineShort == Line("", None, TRUE)                     \* the empty line
LineOther == Line("warn", Some(JsonBad), TRUE)        \* "warning: ..."
LineBadUtf8 == Line("@nix", Some(JsonBad), FALSE)     \* "@nix " and a byte 0xFF

StderrLines ==
    {LineErr, LineErrAt, LineWarn, LineTrace, LineStart, LineBadJson, LineNoRest,
     LineShort, LineOther}
Stderrs == UNION {[1..n -> StderrLines] : n \in 0..MaxLines}

Statuses == {Exited(c) : c \in 0..MaxExitCode} \cup {Signaled(9), Signaled(15)}
Stdouts == {<<>>, <<97>>, <<195, 169>>, <<255>>}
FileStderrs ==
    {<<>>, <<LineErr>>, <<LineErr, LineWarn>>, <<LineWarn, LineErr>>, <<LineBadUtf8>>,
     <<LineOther>>}
RunResults ==
    {RunErr} \cup
    {RunOk(Output(st, so, se)) : st \in Statuses, so \in Stdouts, se \in FileStderrs}

---------------------------------------------------------------------------
(* Specifications of the pure operations: the inputs are drawn in the      *)
(* initial state, one step applies the operation.                          *)

Idle == /\ comp_a = EmptyLog /\ comp_b = EmptyLog /\ comp_diff = None
        /\ err_a = <<>> /\ err_b = <<>> /\ stderr_out = None
        /\ result_a = RunErr /\ result_b = RunErr /\ file_out = None
SchedIdle == /\ outputs = <<>> /\ next = 1 /\ task = <<>> /\ alive = <<>> /\ killed = 0
             /\ diffs = <<>> /\ run = "idle" /\ result = None

AuxIdle == /\ norm_in = <<>> /\ norm_out = None /\ norm_again = None /\ split_out = None
           /\ merged = None /\ idx = 1
           /\ reports = <<>> /\ verbosity = "Auto" /\ resolved = None /\ loaded = {} /\ printed = None

InitDiff ==
    /\ pc = "Diff::from"
    /\ comp_a \in CompLogs /\ comp_b \in CompLogs /\ comp_diff = None
    /\ err_a = <<>> /\ err_b = <<>> /\ stderr_out = None
    /\ result_a = RunErr /\ result_b = RunErr /\ file_out = None
    /\ SchedIdle
    /\ AuxIdle

DiffFromStep ==
    /\ pc = "Diff::from"
    /\ comp_diff' = Some(DiffFrom(comp_a, comp_b))
    /\ pc' = "done"
    /\ UNCHANGED <<comp_a, comp_b, err_a, err_b, stderr_out, result_a, result_b, file_out>>
    /\ UNCHANGED schedvars
    /\ UNCHANGED auxvars

SpecDiff == InitDiff /\ [][DiffFromStep]_vars

InitStderr ==
    /\ pc = "diff_stderr"
    /\ err_a \in Stderrs /\ err_b \in Stderrs /\ stderr_out = None
    /\ comp_a = EmptyLog /\ comp_b = EmptyLog /\ comp_diff = None
    /\ result_a = RunErr /\ result_b = RunErr /\ file_out = None
    /\ SchedIdle
    /\ AuxIdle

DiffStderrStep ==
    /\ pc = "diff_stderr"
    /\ stderr_out' = Some(diff_stderr(err_a, err_b, InputFile))
    /\ pc' = "done"
    /\ UNCHANGED <<comp_a, comp_b, comp_diff, err_a, err_b, result_a, result_b, file_out>>
    /\ UNCHANGED schedvars
    /\ UNCHANGED auxvars

SpecStderr == InitStderr /\ [][DiffStderrStep]_vars

InitFile ==
    /\ pc = "diff_file"
    /\ result_a \in RunResults /\ result_b \in RunResults /\ file_out = None
    /\ comp_a = EmptyLog /\ comp_b = EmptyLog /\ comp_diff = None
    /\ err_a = <<>> /\ err_b = <<>> /\ stderr_out = None
    /\ SchedIdle
    /\ AuxIdle

DiffFileStep ==
    /\ pc = "diff_file"
    /\ file_out' = Some(diff_file(InputFile, result_a, result_b))
    /\ pc' = "done"
    /\ UNCHANGED <<comp_a, comp_b, comp_diff, err_a, err_b, stderr_out, result_a, result_b>>
    /\ UNCHANGED schedvars
    /\ UNCHANGED auxvars

SpecFile == InitFile /\ [][DiffFileStep]_vars

\* simplify_msg applied to a message, and once more to what it returned.
MaxMsgLen == 4
Chunks == {FLAG, " ", "a", "-", "U+00E9"}
Messages == UNION {[1..n -> Chunks] : n \in 0..MaxMsgLen}

InitNorm ==
    /\ pc = "simplify_msg"
    /\ norm_in \in Messages /\ norm_out = None /\ norm_again = None
    /\ split_out = None /\ merged = None /\ idx = 1
    /\ reports = <<>> /\ verbosity = "Auto" /\ resolved = None /\ loaded = {} /\ printed = None
    /\ Idle
    /\ SchedIdle

Simplify ==
    /\ pc = "simplify_msg"
    /\ norm_out' = Some(simplify_msg(norm_in))
    /\ pc' = "again"
    /\ UNCHANGED <<norm_in, norm_again, split_out, foldvars, reportvars>>
    /\ UNCHANGED <<fnvars, schedvars>>

SimplifyAgain ==
    /\ pc = "again"
    /\ norm_again' = Some(simplify_msg(Unwrap(norm_out)))
    /\ pc' = "done"
    /\ UNCHANGED <<norm_in, norm_out, split_out, foldvars, reportvars>>
    /\ UNCHANGED <<fnvars, schedvars>>

NextNorm == Simplify \/ SimplifyAgain

SpecNorm == InitNorm /\ [][NextNorm]_vars

\* split_stderr applied to one stderr.
MaxSplitLines == 3
LineWarnAt == RecLine(LogEntry("msg", Some("lib.nix"), 1, <<FLAG, " ", "b", "-", "7">>, None))
LineNeg == RecLine(LogEntry("msg", None, -1, MsgOther, None))
SplitLines == StderrLines \cup {LineWarnAt, LineNeg}
SplitStderrs == UNION {[1..n -> SplitLines] : n \in 0..MaxSplitLines}

InitSplit ==
    /\ pc = "split_stderr"
    /\ err_a \in SplitStderrs /\ split_out = None
    /\ comp_a = EmptyLog /\ comp_b = EmptyLog /\ comp_diff = None
    /\ err_b = <<>> /\ stderr_out = None
    /\ result_a = RunErr /\ result_b = RunErr /\ file_out = None
    /\ norm_in = <<>> /\ norm_out = None /\ norm_again = None
    /\ merged = None /\ idx = 1
    /\ reports = <<>> /\ verbosity = "Auto" /\ resolved = None /\ loaded = {} /\ printed = None
    /\ SchedIdle

SplitStep ==
    /\ pc = "split_stderr"
    /\ split_out' = Some(split_stderr(err_a, InputFile))
    /\ pc' = "done"
    /\ UNCHANGED <<normvars, foldvars, reportvars>>
    /\ UNCHANGED <<fnvars, schedvars>>

SpecSplit == InitSplit /\ [][SplitStep]_vars

---------------------------------------------------------------------------
(* diff_parsers: the scheduler                                             *)

\* .buffer_unordered(10)
BufferLimit == 10
\* .kill_on_drop(true)
KillOnDropOff == FALSE
KillOnDrop == TRUE

\* Sizes of the walked corpora.
CorpusLarge == 11
CorpusSmall == 2

\* The path of the f-th walked file.
Path(f) == "f" \o ToString(f) \o ".nix"

Files == DOMAIN outputs
InFlight == {f \in Files : task[f] = "running"}
RECURSIVE SumAlive(_)
SumAlive(S) == IF S = {} THEN 0 ELSE LET f == CHOOSE f \in S : TRUE IN alive[f] + SumAlive(S \ {f})

\* What the two parsers do on a file: a pair of runner results.
Scenario(a, b) == [a |-> a, b |-> b]
Clean == Output(Exited(0), <<97>>, <<>>)
ScEqual == Scenario(RunOk(Clean), RunOk(Clean))
ScErrDiff == Scenario(RunOk(Clean), RunOk(Output(Exited(1), <<97>>, <<LineErr>>)))
ScStdout == Scenario(RunOk(Clean), RunOk(Output(Exited(0), <<195, 169>>, <<>>)))
ScSpawnFail == Scenario(RunErr, RunOk(Clean))
ScBadUtf8 == Scenario(RunOk(Clean), RunOk(Output(Exited(0), <<97>>, <<LineBadUtf8>>)))
ScProtocol == Scenario(RunOk(Clean), RunOk(Output(Exited(0), <<97>>, <<LineOther>>)))
Scenarios == {ScEqual, ScErrDiff, ScStdout, ScSpawnFail, ScBadUtf8, ScProtocol}

\* Children a task spawns: one per parser whose spawn succeeds.
Spawned(sc) == (IF sc.a.tag = "Ok" THEN 1 ELSE 0) + (IF sc.b.tag = "Ok" THEN 1 ELSE 0)

\* .filter_map(|res| async move { res.unwrap_or_else(|_| None) })
CollectedErrAsDefault(r) == IF r.tag = "Ok" THEN r.val ELSE Some(DefaultParserDiff)
Collected(r) == IF r.tag = "Ok" THEN r.val ELSE None

\* Dropping the stream drops every diff_file future in flight, and with it the
\* Child handles it owns.
DropAll ==
    /\ task' = [f \in Files |-> IF task[f] = "running" THEN "dropped" ELSE task[f]]
    /\ alive' = [f \in Files |-> IF task[f] = "running" /\ KillOnDrop THEN 0 ELSE alive[f]]
    /\ killed' = killed + (IF KillOnDrop THEN SumAlive(InFlight) ELSE 0)

InitRun(n, menu) ==
    /\ pc = "diff_parsers"
    /\ Idle
    /\ AuxIdle
    /\ outputs \in [1..n -> menu]
    /\ next = 1
    /\ task = [f \in 1..n |-> "queued"]
    /\ alive = [f \in 1..n |-> 0]
    /\ killed = 0
    /\ diffs = <<>>
    /\ run = "running"
    /\ result = None

\* buffer_unordered: while in_progress_queue.len() < max
HasRoomOffByOne == Cardinality(InFlight) <= BufferLimit
HasRoom == Cardinality(InFlight) < BufferLimit

\* buffer_unordered pulls the next file while fewer than BufferLimit are in flight;
\* diff_file spawns both parsers.
Start ==
    /\ run = "running"
    /\ next \in Files
    /\ HasRoom
    /\ task' = [task EXCEPT ![next] = "running"]
    /\ alive' = [alive EXCEPT ![next] = Spawned(outputs[next])]
    /\ next' = next + 1
    /\ UNCHANGED <<pc, fnvars, auxvars, outputs, killed, diffs, run, result>>

\* One parser of a file exits while the other is still running: join! keeps waiting.
ChildExit(f) ==
    /\ run = "running"
    /\ task[f] = "running"
    /\ alive[f] = 2
    /\ alive' = [alive EXCEPT ![f] = 1]
    /\ UNCHANGED <<pc, fnvars, auxvars, outputs, next, task, killed, diffs, run, result>>

\* The last parser of a file exits: join! resolves, diff_file runs to its end and
\* buffer_unordered yields its result to filter_map and collect. A panic unwinds
\* through diff_parsers and drops the stream.
Complete(f) ==
    /\ run = "running"
    /\ task[f] = "running"
    /\ alive[f] <= 1
    /\ LET r == diff_file(Path(f), outputs[f].a, outputs[f].b)
       IN IF r.tag = "Panic"
          THEN /\ run' = "panicked"
               /\ DropAll
               /\ UNCHANGED diffs
          ELSE /\ task' = [task EXCEPT ![f] = "done"]
               /\ alive' = [alive EXCEPT ![f] = 0]
               /\ diffs' = (IF IsSome(Collected(r)) THEN Append(diffs, Unwrap(Collected(r))) ELSE diffs)
               /\ UNCHANGED <<run, killed>>
    /\ UNCHANGED <<pc, fnvars, auxvars, outputs, next, result>>

\* The stream is exhausted: DiffResult::from(diffs), Ok(result).
Finish ==
    /\ run = "running"
    /\ next \notin Files
    /\ InFlight = {}
    /\ result' = Some(DiffResultFrom(diffs))
    /\ run' = "returned"
    /\ UNCHANGED <<pc, fnvars, auxvars, outputs, next, task, alive, killed, diffs>>

\* The caller drops the diff_parsers future before it returned.
Cancel ==
    /\ run = "running"
    /\ run' = "cancelled"
    /\ DropAll
    /\ UNCHANGED <<pc, fnvars, auxvars, outputs, next, diffs, result>>

NextRun ==
    \/ Start
    \/ \E f \in Files : ChildExit(f)
    \/ \E f \in Files : Complete(f)
    \/ Finish
    \/ Cancel

\* A large corpus on which the parsers agree: the scheduling alone.
SpecSched == InitRun(CorpusLarge, {ScEqual}) /\ [][NextRun]_vars
\* A small corpus on which the parsers may do anything of Scenarios.
SpecAgg == InitRun(CorpusSmall, Scenarios) /\ [][NextRun]_vars

---------------------------------------------------------------------------
(* DiffResult::from, one merge at a time, on the ParserDiffs diff_file      *)
(* returns for the files of a corpus (file i is the i-th to complete).      *)

MaxDiffs == 3
LineErrOther == RecLine(LogEntry("msg", None, 0, MsgOther, None))
Failing(lines) == RunOk(Output(Exited(1), <<97>>, lines))
Passing(lines) == RunOk(Output(Exited(0), <<97>>, lines))
FErrA == Scenario(Failing(<<LineErr>>), RunOk(Clean))
FErrAt == Scenario(RunOk(Clean), Passing(<<LineErrAt>>))
FWarn == Scenario(Passing(<<LineWarn>>), RunOk(Clean))
FStdout == Scenario(RunOk(Output(Exited(0), <<>>, <<>>)), RunOk(Clean))
FExit == Scenario(RunOk(Clean), Failing(<<>>))
FTwoKeys == Scenario(Failing(<<LineErr, LineErrOther>>), Failing(<<LineErr>>))
FPartial == Scenario(Passing(<<LineErr, LineErrAt>>), Passing(<<LineErr>>))
FReorder == Scenario(Passing(<<LineErr, LineWarn>>), Passing(<<LineWarn, LineErr>>))
FoldScenarios ==
    {ScErrDiff, FErrA, FErrAt, FWarn, ScStdout, FStdout, FExit, FTwoKeys, FPartial, FReorder}

\* what the stream yields for file f
Yield(f, sc) == Unwrap(Collected(diff_file(Path(f), sc.a, sc.b)))

InitFold ==
    /\ pc = "DiffResult::from"
    /\ \E n \in 0..MaxDiffs : outputs \in [1..n -> FoldScenarios]
    /\ diffs = [f \in DOMAIN outputs |-> Yield(f, outputs[f])]
    /\ merged = None /\ idx = 1 /\ result = None
    /\ next = 1 /\ task = <<>> /\ alive = <<>> /\ killed = 0 /\ run = "idle"
    /\ norm_in = <<>> /\ norm_out = None /\ norm_again = None /\ split_out = None
    /\ reports = <<>> /\ verbosity = "Auto" /\ resolved = None /\ loaded = {} /\ printed = None
    /\ Idle

\* if diffs.len() == 0 { return Default::default(); }
FoldEmpty ==
    /\ pc = "DiffResult::from"
    /\ Len(diffs) = 0
    /\ result' = Some(DefaultDiffResult)
    /\ pc' = "done"
    /\ UNCHANGED <<fnvars, normvars, split_out, foldvars, reportvars>>
    /\ UNCHANGED <<outputs, next, task, alive, killed, diffs, run>>

\* reduce: the first element is the initial accumulator
FoldFirst ==
    /\ pc = "DiffResult::from"
    /\ Len(diffs) # 0
    /\ merged' = Some(diffs[1])
    /\ idx' = 2
    /\ pc' = "reduce"
    /\ UNCHANGED <<fnvars, normvars, split_out, reportvars>>
    /\ UNCHANGED schedvars

\* acc.merge(diff)
FoldMerge ==
    /\ pc = "reduce"
    /\ idx <= Len(diffs)
    /\ merged' = Some(ParserDiffMerge(Unwrap(merged), diffs[idx]))
    /\ idx' = idx + 1
    /\ UNCHANGED <<pc, fnvars, normvars, split_out, reportvars>>
    /\ UNCHANGED schedvars

\* the DiffResult built from the accumulator
FoldProject ==
    /\ pc = "reduce"
    /\ idx > Len(diffs)
    /\ result' = Some([err_diff |-> propagate_msg(Unwrap(merged).err_eq),
                       wrn_diff |-> propagate_msg(Unwrap(merged).warn_eq),
                       trc_diff |-> propagate_msg(Unwrap(merged).trace_eq)])
    /\ pc' = "done"
    /\ UNCHANGED <<fnvars, normvars, split_out, foldvars, reportvars>>
    /\ UNCHANGED <<outputs, next, task, alive, killed, diffs, run>>

NextFold == FoldEmpty \/ FoldFirst \/ FoldMerge \/ FoldProject

SpecFold == InitFold /\ [][NextFold]_vars

---------------------------------------------------------------------------
(* report (src/src/reporting.rs)                                           *)

Verbosities == {"Summary", "Detailed", "Auto"}

\* the match on verbosity at the head of report
ResolveAtMostOne(v, n) == IF v = "Auto" THEN (IF n <= 1 THEN "Detailed" ELSE "Summary") ELSE v
Resolve(v, n) == IF v = "Auto" THEN (IF n = 1 THEN "Detailed" ELSE "Summary") ELSE v

\* A report path: its file stem (None when it has none that is a String), whether
\* DiffResult::from_path reads it, whether what it reads has anything to print.
MaxReports == 2
ReportFile(stem, loads, content) == [stem |-> stem, loads |-> loads, content |-> content]
ReportFiles ==
    {ReportFile(Some(s), l, c) : s \in {"r1", "r2"}, l \in BOOLEAN, c \in BOOLEAN}
    \cup {ReportFile(None, FALSE, FALSE)}

\* The HashMap collected from the paths: a later path replaces an earlier one
\* of the same stem.
Collect(rs) ==
    [s \in {rs[i].stem[1] : i \in 1..Len(rs)} |->
        rs[CHOOSE i \in 1..Len(rs) :
            rs[i].stem[1] = s /\ \A j \in 1..Len(rs) : rs[j].stem[1] = s => j <= i]]

InitReport ==
    /\ pc = "report"
    /\ \E n \in 0..MaxReports : reports \in [1..n -> ReportFiles]
    /\ verbosity \in Verbosities
    /\ resolved = None /\ loaded = {} /\ printed = None
    /\ norm_in = <<>> /\ norm_out = None /\ norm_again = None /\ split_out = None
    /\ merged = None /\ idx = 1
    /\ Idle
    /\ SchedIdle

\* let verbosity = match verbosity {..}; then the paths are mapped to
\* (file stem, DiffResult::from_path): a path without a stem panics in unwrap()
ReportResolve ==
    /\ pc = "report"
    /\ resolved' = Some(Resolve(verbosity, Len(reports)))
    /\ pc' = IF \E i \in 1..Len(reports) : reports[i].stem = None THEN "panicked" ELSE "add"
    /\ UNCHANGED <<fnvars, schedvars, normvars, split_out, foldvars>>
    /\ UNCHANGED <<reports, verbosity, loaded, printed>>

\* report.add(diff_result?, repo_name), in the order the HashMap iterates
ReportAdd(s) ==
    /\ pc = "add"
    /\ s \in DOMAIN Collect(reports) \ loaded
    /\ IF Collect(reports)[s].loads
       THEN loaded' = loaded \cup {s} /\ pc' = pc
       ELSE loaded' = loaded /\ pc' = "failed"
    /\ UNCHANGED <<fnvars, schedvars, normvars, split_out, foldvars>>
    /\ UNCHANGED <<reports, verbosity, resolved, printed>>

\* print_report(report, verbosity): each match on verbosity has an unreachable!()
\* arm for Auto, run once for every entry there is to print
ReportPrint ==
    /\ pc = "add"
    /\ loaded = DOMAIN Collect(reports)
    /\ printed' = resolved
    /\ pc' = IF resolved = Some("Auto") /\ \E s \in loaded : Collect(reports)[s].content
             THEN "unreachable" ELSE "done"
    /\ UNCHANGED <<fnvars, schedvars, normvars, split_out, foldvars>>
    /\ UNCHANGED <<reports, verbosity, resolved, loaded>>

NextReport == ReportResolve \/ (\E s \in {"r1", "r2"} : ReportAdd(s)) \/ ReportPrint

SpecReport == InitReport /\ [][NextReport]_vars

---------------------------------------------------------------------------
(* Properties                                                              *)

\* diff_file returned Ok(Some(ParserDiff))
ReturnedDiff == pc = "done" /\ IsSome(file_out) /\ Unwrap(file_out).tag = "Ok" /\ IsSome(Unwrap(file_out).val)
TheDiff == Unwrap(Unwrap(file_out).val)
BothRan == result_a.tag = "Ok" /\ result_b.tag = "Ok"

\* C1: when both parser runs complete with the same exit status, the same stdout
\* bytes and the same stderr bytes, diff_file returns Ok(None), whatever the
\* outputs contain.
C1_EqualOutputNullDiff ==
    (/\ pc = "done"
     /\ BothRan
     /\ result_a.out.status = result_b.out.status
     /\ result_a.out.stdout = result_b.out.stdout
     /\ result_a.out.stderr = result_b.out.stderr)
    => file_out = Some(FileOk(None))

\* Equal outputs whose stderr is not even valid UTF-8 and whose stdout is not either.
C1_Witness ==
    /\ pc = "done"
    /\ BothRan
    /\ result_a = result_b
    /\ result_a.out.stderr = <<LineBadUtf8>>
    /\ result_a.out.stdout = <<255>>
    /\ file_out = Some(FileOk(None))

\* C2: p is in result_a[m] of Diff::from(A, B) iff p is in A[m] and (m is no key of
\* B or p is not in B[m]), and symmetrically for result_b; a message with the same
\* positions on both sides is a key of neither side.
InLog(log, m, p) == m \in DOMAIN log /\ p \in log[m]
C2_SymmetricDifference ==
    pc = "done" /\ IsSome(comp_diff) =>
        LET d == Unwrap(comp_diff)
        IN /\ \A m \in DiffMsgs, p \in Positions :
                /\ InLog(d.result_a, m, p)
                     <=> (InLog(comp_a, m, p) /\ (m \notin DOMAIN comp_b \/ p \notin comp_b[m]))
                /\ InLog(d.result_b, m, p)
                     <=> (InLog(comp_b, m, p) /\ (m \notin DOMAIN comp_a \/ p \notin comp_a[m]))
           /\ \A m \in DOMAIN comp_a \cap DOMAIN comp_b :
                comp_a[m] = comp_b[m] => m \notin DOMAIN d.result_a /\ m \notin DOMAIN d.result_b

\* One message agrees on both sides and is dropped, another is known to A alone
\* and is kept whole.
C2_Witness ==
    /\ pc = "done" /\ IsSome(comp_diff)
    /\ \E m \in DOMAIN comp_a \cap DOMAIN comp_b :
            comp_a[m] = comp_b[m] /\ m \notin DOMAIN Unwrap(comp_diff).result_a
    /\ \E m \in DOMAIN comp_a \ DOMAIN comp_b :
            InLog(Unwrap(comp_diff).result_a, m, "p1") /\ InLog(Unwrap(comp_diff).result_a, m, "p2")

\* C3 (as claimed): pass_eq is present iff exactly one of the two parsers succeeded.
C3_PassEqIffSuccessDiffers ==
    ReturnedDiff =>
        (IsSome(TheDiff.pass_eq)
            <=> success(result_a.out.status) # success(result_b.out.status))

\* C3 (amended): pass_eq is present iff not both parsers succeeded, so also when
\* both failed; when present it carries (A.success, B.success).
C3_PassEqIffNotBothSucceeded ==
    ReturnedDiff =>
        /\ IsSome(TheDiff.pass_eq)
             <=> ~(success(result_a.out.status) /\ success(result_b.out.status))
        /\ IsSome(TheDiff.pass_eq) =>
             /\ Unwrap(TheDiff.pass_eq).result_a = success(result_a.out.status)
             /\ Unwrap(TheDiff.pass_eq).result_b = success(result_b.out.status)

\* Both parsers failed, with different exit codes: pass_eq is (false, false).
C3_Witness ==
    /\ ReturnedDiff
    /\ ~success(result_a.out.status) /\ ~success(result_b.out.status)
    /\ TheDiff.pass_eq = Some(Diff(FALSE, FALSE))

\* encode characters as UTF-8 bytes (one or two bytes per character)
RECURSIVE Utf8Encode(_)
Utf8Encode(chars) ==
    IF chars = <<>> THEN <<>>
    ELSE (IF Head(chars) < 128 THEN <<Head(chars)>>
          ELSE <<192 + (Head(chars) \div 64), 128 + (Head(chars) % 64)>>)
         \o Utf8Encode(Tail(chars))

\* C4: exit_eq is present iff the exit statuses differ and then carries both exit
\* codes (none for a signal); stdout_eq is present iff the stdout bytes differ and
\* then carries both stdouts.
C4_ExitAndStdoutFacets ==
    ReturnedDiff =>
        LET a == result_a.out
            b == result_b.out
        IN /\ IsSome(TheDiff.exit_eq) <=> a.status # b.status
           /\ IsSome(TheDiff.exit_eq) =>
                /\ Unwrap(TheDiff.exit_eq).result_a = (IF a.status.signal THEN None ELSE Some(a.status.n))
                /\ Unwrap(TheDiff.exit_eq).result_b = (IF b.status.signal THEN None ELSE Some(b.status.n))
           /\ IsSome(TheDiff.stdout_eq) <=> a.stdout # b.stdout
           /\ IsSome(TheDiff.stdout_eq) =>
                /\ Utf8Encode(Unwrap(TheDiff.stdout_eq).result_a) = a.stdout
                /\ Utf8Encode(Unwrap(TheDiff.stdout_eq).result_b) = b.stdout

\* Two different signals: the statuses differ although neither has an exit code;
\* the stdouts differ too, one of them in a two-byte character.
C4_Witness ==
    /\ ReturnedDiff
    /\ result_a.out.status = Signaled(9) /\ result_b.out.status = Signaled(15)
    /\ TheDiff.exit_eq = Some(Diff(None, None))
    /\ TheDiff.stdout_eq = Some(Diff(<<97>>, <<233>>))

\* the records a stderr holds, by what each line is made of
LineEntries(stderr) ==
    {Unwrap(stderr[i].tail).entry : i \in {j \in 1..Len(stderr) :
        stderr[j].head = "@nix" /\ IsSome(stderr[j].tail) /\ Unwrap(stderr[j].tail).obj}}
AtLevel(entries, lv) ==
    {e \in entries : IF lv = 0 THEN e.level = 0 ELSE IF lv = 1 THEN e.level = 1 ELSE e.level \notin {0, 1}}
StderrDone == pc = "done" /\ IsSome(stderr_out) /\ Unwrap(stderr_out).tag = "Ok"

\* C5: for each severity the facet is present iff the CompLogs split_stderr makes
\* of the two stderrs differ; all three are absent when the stderrs are equal; a
\* facet is absent when the stderrs hold the same records of that severity, in
\* whatever order and however often repeated.
C5_LogFacets ==
    StderrDone =>
        LET r == Unwrap(stderr_out)
            sa == split_stderr(err_a, InputFile)
            sb == split_stderr(err_b, InputFile)
        IN /\ IsSome(r.err) <=> sa.err # sb.err
           /\ IsSome(r.warn) <=> sa.warn # sb.warn
           /\ IsSome(r.trace) <=> sa.trace # sb.trace
           /\ err_a = err_b => r.err = None /\ r.warn = None /\ r.trace = None
           /\ AtLevel(LineEntries(err_a), 0) = AtLevel(LineEntries(err_b), 0) => r.err = None
           /\ AtLevel(LineEntries(err_a), 1) = AtLevel(LineEntries(err_b), 1) => r.warn = None
           /\ AtLevel(LineEntries(err_a), 2) = AtLevel(LineEntries(err_b), 2) => r.trace = None

\* B repeats A's error and adds a warning: only warn_eq is produced.
C5_Witness ==
    /\ StderrDone
    /\ err_a = <<LineErr>>
    /\ err_b = <<LineErr, LineWarn>>
    /\ Unwrap(stderr_out).err = None
    /\ Unwrap(stderr_out).trace = None
    /\ IsSome(Unwrap(stderr_out).warn)
    /\ Unwrap(Unwrap(stderr_out).warn).result_a = EmptyLog
    /\ DOMAIN Unwrap(Unwrap(stderr_out).warn).result_b = {<<DEP, "b", "-", "7">>}

\* C6: a parser child process is alive only while the diff_file future that owns
\* it is alive; once the run is dropped (cancelled, or unwound by a panic) no
\* child is left running.
C6_NoChildOutlivesItsTask ==
    /\ \A f \in Files : alive[f] > 0 => task[f] = "running"
    /\ run \in {"cancelled", "panicked"} => \A f \in Files : alive[f] = 0

\* The run was cancelled with both files in flight and all four children running:
\* all four were killed.
C6_Witness ==
    /\ run = "cancelled"
    /\ \A f \in Files : task[f] = "dropped" /\ alive[f] = 0
    /\ killed = 4

\* C7: at most 10 diff_file tasks are outstanding and at most 20 parser child
\* processes alive, whatever the corpus and the completion order.
C7_ConcurrencyCeiling ==
    /\ Cardinality(InFlight) <= 10
    /\ SumAlive(Files) <= 20

\* Ten files in flight with all twenty children running, and a file still waiting.
C7_Witness ==
    /\ Cardinality(InFlight) = 10
    /\ SumAlive(Files) = 20
    /\ next \in Files
    /\ task[next] = "queued"

\* what diff_file makes of the f-th file
DiffOf(f) == diff_file(Path(f), outputs[f].a, outputs[f].b)
Count(seq, x) == Cardinality({i \in 1..Len(seq) : seq[i] = x})
Yielding(pd) == {f \in Files : DiffOf(f) = FileOk(Some(pd))}

\* C8: files whose diff_file returns an error never make the run fail; when
\* diff_parsers returns, every file has been diffed, and the collected ParserDiffs
\* are exactly those of the files that returned Ok(Some), one each, and the
\* result is their aggregate.
C8_FailurePolicy ==
    /\ run \notin {"running", "returned", "cancelled"} => \E f \in Files : DiffOf(f).tag = "Panic"
    /\ run = "returned" =>
        /\ \A f \in Files : task[f] = "done"
        /\ \A f \in Files : DiffOf(f).tag = "Ok" /\ IsSome(DiffOf(f).val) =>
                Count(diffs, Unwrap(DiffOf(f).val)) = Cardinality(Yielding(Unwrap(DiffOf(f).val)))
        /\ \A i \in 1..Len(diffs) : Yielding(diffs[i]) # {}
        /\ result = Some(DiffResultFrom(diffs))

\* One file fails to spawn a parser, the other yields a diff: the run returned
\* with the aggregate of that one diff.
C8_Witness ==
    /\ run = "returned"
    /\ \E f \in Files : outputs[f] = ScSpawnFail
    /\ \E f \in Files : outputs[f] = ScErrDiff
    /\ Len(diffs) = 1
    /\ IsSome(result)
    /\ DOMAIN Unwrap(result).err_diff = {MsgSyntax}

\* a stderr with a line of four bytes or more that does not start with "@nix", or
\* an "@nix" record whose action is not "msg"
ProtocolViolation(stderr) ==
    \E i \in 1..Len(stderr) :
        \/ Len(stderr[i].head) = 4 /\ stderr[i].head # "@nix"
        \/ /\ stderr[i].head = "@nix" /\ IsSome(stderr[i].tail)
           /\ Unwrap(stderr[i].tail).obj /\ Unwrap(stderr[i].tail).entry.action # "msg"
Violating(f) ==
    \/ outputs[f].a.tag = "Ok" /\ ProtocolViolation(outputs[f].a.out.stderr)
    \/ outputs[f].b.tag = "Ok" /\ ProtocolViolation(outputs[f].b.out.stderr)

\* C9 (as claimed): a protocol violation in the stderr of one file fails that file
\* only: the scheduler goes on, the run returns, the other files are aggregated.
C9_ProtocolViolationFailsFileOnly ==
    \A f \in Files :
        Violating(f) /\ task[f] \notin {"queued", "running"} =>
            /\ run \in {"running", "returned", "cancelled"}
            /\ task[f] = "done" \/ run = "cancelled"

\* the lines of a stderr that are "@nix" lines whose remainder is no JSON record
Malformed(line) ==
    line.head = "@nix" /\ (~IsSome(line.tail) \/ ~Unwrap(line.tail).obj)
WellFormed(line) ==
    line.head = "@nix" /\ IsSome(line.tail) /\ Unwrap(line.tail).obj /\ Unwrap(line.tail).entry.action = "msg"
OnlyRecords(stderr) == \A i \in 1..Len(stderr) : Malformed(stderr[i]) \/ WellFormed(stderr[i])

\* C10 (as claimed): an "@nix" line whose remainder is no JSON record, an empty or
\* missing remainder included, is skipped without failing, and the well-formed
\* records of the same stderr still make up the CompLogs.
C10_MalformedJsonSkipped ==
    pc = "done" /\ IsSome(stderr_out) /\ err_a # err_b /\ OnlyRecords(err_a) /\ OnlyRecords(err_b) =>
        /\ Unwrap(stderr_out).tag = "Ok"
        /\ Unwrap(stderr_out) = diff_stderr(SelectSeq(err_a, WellFormed), SelectSeq(err_b, WellFormed), InputFile)

\* bytes that are no UTF-8 text: a byte of 0x80 or more that neither starts nor
\* continues a two-byte character
BadBytes(bytes) ==
    \E i \in 1..Len(bytes) :
        /\ bytes[i] >= 128
        /\ ~(bytes[i] \in 194..223 /\ i < Len(bytes) /\ bytes[i + 1] \in 128..191)
        /\ ~(bytes[i] \in 128..191 /\ i > 1 /\ bytes[i - 1] \in 194..223)
BadLines(stderr) == \E i \in 1..Len(stderr) : ~stderr[i].utf8

C12_NormalizerIdempotent ==
    /\ pc = "done" => norm_again = norm_out
    /\ IsSome(norm_out) /\ Unwrap(norm_out) # norm_in =>
          /\ Unwrap(norm_out)[1] = DEP
          /\ ~\E i \in 1..(Len(Unwrap(norm_out)) - 1) :
                Unwrap(norm_out)[i] = FLAG /\ Unwrap(norm_out)[i + 1] = " "

\* A message that matches was rewritten, and rewriting the result changes nothing.
C12_Witness ==
    /\ pc = "done"
    /\ norm_in = <<"a", FLAG, " ", "a">>
    /\ norm_out = Some(<<DEP, "a">>)
    /\ norm_again = norm_out

\* The characters of the text of a chunk, by class.
AsciiNameChunk(t) == t \in {"a", "b", "7", "_", "-", FLAG}
EndsInWordChar(t) == t \in {"a", "b", "7", "_", "U+00E9", FLAG}
NameChunk(t) == EndsInWordChar(t) \/ t = "-"
First(S) == CHOOSE i \in S : \A k \in S : i <= k
Last(S) == CHOOSE i \in S : \A k \in S : k <= i

\* C13 (as claimed): a message containing the marker followed by a name of
\* [A-Za-z0-9_-]+ is replaced by "Deprecated Feature: " and that name (the whole
\* run of such characters after the first marker); every other message is
\* returned unchanged.
C13_AsciiNameResult ==
    IsSome(norm_out) =>
        LET msg == norm_in
            marks == {i \in 1..(Len(msg) - 2) :
                        msg[i] = FLAG /\ msg[i + 1] = " " /\ AsciiNameChunk(msg[i + 2])}
        IN IF marks = {} THEN Unwrap(norm_out) = msg
           ELSE LET i == First(marks)
                    j == Last({j \in (i + 2)..Len(msg) : \A k \in (i + 2)..j : AsciiNameChunk(msg[k])})
                IN Unwrap(norm_out) = <<DEP>> \o SubSeq(msg, i + 2, j)

\* C13 (amended): the name is the run of word characters (letters and digits of
\* any script, "_") and hyphens after the first marker that is followed by such a
\* run holding a word character, cut after the last word character of the run;
\* the message is replaced by "Deprecated Feature: " and that name; a message
\* with no such marker is returned unchanged.
C13_NormalizerResult ==
    IsSome(norm_out) =>
        LET msg == norm_in
            NameEnds(i) == {j \in (i + 2)..Len(msg) :
                              /\ \A k \in (i + 2)..j : NameChunk(msg[k])
                              /\ EndsInWordChar(msg[j])}
            marks == {i \in 1..(Len(msg) - 2) :
                        msg[i] = FLAG /\ msg[i + 1] = " " /\ NameEnds(i) # {}}
        IN IF marks = {} THEN Unwrap(norm_out) = msg
           ELSE Unwrap(norm_out) = <<DEP>> \o SubSeq(msg, First(marks) + 2, Last(NameEnds(First(marks))))

\* A name followed by a hyphen: the hyphen is not part of the name returned.
C13_Witness ==
    /\ pc = "done"
    /\ norm_in = <<FLAG, " ", "a", "-">>
    /\ norm_out = Some(<<DEP, "a">>)

\* The text a record is keyed by, and where it was found.
KeyOf(e) == simplify_msg(IF e.raw_msg # None THEN e.raw_msg[1] ELSE e.msg)
PosOf(e) == IF e.file # None THEN e.file[1] ELSE InputFile
Bucket(entries) ==
    [k \in {KeyOf(e) : e \in entries} |-> {PosOf(e) : e \in {x \in entries : KeyOf(x) = k}}]
ShortLine(line) == Len(line.head) < 4

\* C14: for a stderr of well-formed "@nix" msg records and lines of fewer than
\* four bytes, the error log is made of the records of level 0, the warning log
\* of those of level 1, the trace log of all the others; each log maps a key to
\* exactly the positions of the records of its bucket with that key, so that it
\* depends only on the set of records.
C14_LogParserResult ==
    /\ pc = "done" /\ IsSome(split_out)
    /\ \A i \in 1..Len(err_a) : WellFormed(err_a[i]) \/ ShortLine(err_a[i])
    => LET out == Unwrap(split_out)
           recs == LineEntries(err_a)
       IN /\ out.tag = "Ok"
          /\ out.err = Bucket({e \in recs : e.level = 0})
          /\ out.warn = Bucket({e \in recs : e.level = 1})
          /\ out.trace = Bucket({e \in recs : e.level \notin {0, 1}})

\* Two error records with one key at two positions, and two warnings that name
\* the same deprecated feature in different words.
C14_Witness ==
    /\ pc = "done" /\ IsSome(split_out)
    /\ err_a = <<LineErrAt, LineWarn, LineErr>>
    /\ Unwrap(split_out).err = (MsgSyntax :> {"lib.nix", InputFile})
    /\ Unwrap(split_out).warn = (<<DEP, "b", "-", "7">> :> {InputFile})
    /\ Unwrap(split_out).trace = EmptyLog

\* The step-wise fold and DiffResult::from as one function agree.
FoldDone == pc = "done" /\ IsSome(result)
FoldIsDiffResultFrom == FoldDone => result = Some(DiffResultFrom(diffs))

\* One severity of the DiffResult against the facet of the accumulator.
Projects(map, facet) ==
    IF facet = None THEN DOMAIN map = {}
    ELSE LET a == facet[1].result_a
             b == facet[1].result_b
         IN /\ DOMAIN map = DOMAIN a \cup DOMAIN b
            /\ \A m \in DOMAIN a : map[m].result_a = a[m]
            /\ \A m \in DOMAIN b : map[m].result_b = b[m]
            /\ \A m \in DOMAIN map \ DOMAIN a : map[m].result_a = {}
            /\ \A m \in DOMAIN map \ DOMAIN b : map[m].result_b = {}

\* C15: the DiffResult of no ParserDiffs has three empty maps; otherwise each
\* severity's map has the keys of both sides of the accumulator's facet, each
\* key with the positions of the side that holds it and the empty set for a
\* side that does not, and an absent facet gives an empty map.
C15_Projection ==
    FoldDone =>
        IF Len(diffs) = 0
        THEN /\ merged = None
             /\ DOMAIN result[1].err_diff = {}
             /\ DOMAIN result[1].wrn_diff = {}
             /\ DOMAIN result[1].trc_diff = {}
        ELSE /\ Projects(result[1].err_diff, merged[1].err_eq)
             /\ Projects(result[1].wrn_diff, merged[1].warn_eq)
             /\ Projects(result[1].trc_diff, merged[1].trace_eq)

\* A message only parser A gave and another only parser B gave, and no warning
\* facet at all.
C15_Witness ==
    /\ FoldDone
    /\ outputs = <<FTwoKeys, FErrAt>>
    /\ result[1].err_diff = (MsgOther :> Diff({"f1.nix"}, {}) @@ MsgSyntax :> Diff({}, {"lib.nix"}))
    /\ merged[1].warn_eq = None /\ result[1].wrn_diff = EmptyLog

Orders(n) == {p \in [1..n -> 1..n] : \A i, j \in 1..n : p[i] = p[j] => i = j}
Permuted(ds, p) == [i \in 1..Len(ds) |-> ds[p[i]]]
Folded(ds) == Reduce(ds, 2, ds[1])
Folding == pc \in {"reduce", "done"} /\ IsSome(merged)

\* C16: the accumulator's stdout_eq is absent when none of the ParserDiffs merged
\* so far carries one, is the carried one when exactly one does, and is the pair
\* ("Multiple given", "Multiple given") when two or more do; so folding the
\* sequence in any other order gives the same stdout_eq.
C16_StdoutSentinel ==
    Folding =>
        LET carrying == {i \in 1..(idx - 1) : diffs[i].stdout_eq # None}
            so == merged[1].stdout_eq
        IN /\ carrying = {} => so = None
           /\ \A i \in carrying : carrying = {i} => so = diffs[i].stdout_eq
           /\ Cardinality(carrying) >= 2 =>
                so = Some([result_a |-> MultipleGiven, result_b |-> MultipleGiven])
           /\ pc = "done" =>
                \A p \in Orders(Len(diffs)) : Folded(Permuted(diffs, p)).stdout_eq = so

\* Two files with different stdout differences and one without: the sentinel.
C16_Witness ==
    /\ FoldDone
    /\ outputs = <<ScStdout, FErrA, FStdout>>
    /\ diffs[1].stdout_eq = Some(Diff(<<97>>, <<233>>))
    /\ diffs[3].stdout_eq = Some(Diff(<<>>, <<97>>))
    /\ merged[1].stdout_eq = Some(Diff(MultipleGiven, MultipleGiven))

Severities(r) == <<r.err_diff, r.wrn_diff, r.trc_diff>>

\* C17: in the DiffResult of ParserDiffs that diff_file produced, every message
\* of every severity has a position on at least one of the two sides.
C17_SomeSideNonEmpty ==
    FoldDone =>
        \A s \in 1..3 :
            \A m \in DOMAIN Severities(result[1])[s] :
                \/ Severities(result[1])[s][m].result_a # {}
                \/ Severities(result[1])[s][m].result_b # {}

\* Messages both parsers gave at the same position are not in the DiffResult;
\* the ones that are have the positions only parser A gave.
C17_Witness ==
    /\ FoldDone
    /\ outputs = <<FPartial, FTwoKeys>>
    /\ result[1].err_diff = (MsgSyntax :> Diff({"lib.nix"}, {}) @@ MsgOther :> Diff({"f2.nix"}, {}))

\* C18: Auto becomes Detailed when exactly one report path is given and Summary
\* for any other number of paths, Summary and Detailed stay as given; what
\* print_report is called with is the resolved verbosity, never Auto, and no
\* unreachable!() arm is run.
C18_ReporterVerbosity ==
    /\ pc # "report" =>
          /\ resolved # None
          /\ verbosity = "Auto" /\ Len(reports) = 1 => resolved = <<"Detailed">>
          /\ verbosity = "Auto" /\ Len(reports) # 1 => resolved = <<"Summary">>
          /\ verbosity # "Auto" => resolved = <<verbosity>>
    /\ printed # None => printed = resolved /\ printed # <<"Auto">>
    /\ pc # "unreachable"

\* Auto with two report files that both have something to print: a summary.
C18_Witness ==
    /\ pc = "done"
    /\ verbosity = "Auto"
    /\ Len(reports) = 2 /\ loaded = {"r1", "r2"}
    /\ \A i \in 1..2 : reports[i].content
    /\ printed = <<"Summary">>

\* C19 (as claimed): the err_diff, wrn_diff and trc_diff of the DiffResult are
\* the same for every order of the ParserDiffs, also when different files report
\* the same message.
C19_LogAggregateOrderIndependent ==
    FoldDone =>
        \A p \in Orders(Len(diffs)) : DiffResultFrom(Permuted(diffs, p)) = result[1]

\* One side of a merged facet against the accumulator's and the incoming one.
SideRule(old, inc, new) ==
    /\ DOMAIN new = DOMAIN old \cup DOMAIN inc
    /\ \A k \in DOMAIN old \ DOMAIN inc : new[k] = old[k]
    /\ \A k \in DOMAIN inc : new[k] = inc[k]
FacetRule(old, inc, new) ==
    IF old # None /\ inc # None
    THEN /\ new # None
         /\ SideRule(old[1].result_a, inc[1].result_a, new[1].result_a)
         /\ SideRule(old[1].result_b, inc[1].result_b, new[1].result_b)
    ELSE IF inc # None THEN new = inc
    ELSE new = old

\* C20: a merge step of the fold leaves, for each log facet and each side, the
\* keys of the accumulator and of the incoming ParserDiff; a key of the
\* accumulator alone keeps its positions, a key of the incoming ParserDiff has
\* the incoming positions and nothing of what the accumulator held for it; a
\* facet only one of the two carries is that one's, unchanged.
C20_CompLogMergeRule ==
    [][pc = "reduce" /\ idx' = idx + 1 =>
          /\ FacetRule(merged[1].err_eq, diffs[idx].err_eq, merged'[1].err_eq)
          /\ FacetRule(merged[1].warn_eq, diffs[idx].warn_eq, merged'[1].warn_eq)
          /\ FacetRule(merged[1].trace_eq, diffs[idx].trace_eq, merged'[1].trace_eq)]_vars

\* Two files where parser B alone gives the same error, each at its own path:
\* after the merge the message has the second file's position only; the third
\* file brings a warning facet the accumulator did not have.
C20_Witness ==
    /\ FoldDone
    /\ outputs = <<ScErrDiff, ScErrDiff, FWarn>>
    /\ diffs[1].err_eq = Some(Diff(EmptyLog, MsgSyntax :> {"f1.nix"}))
    /\ diffs[2].err_eq = Some(Diff(EmptyLog, MsgSyntax :> {"f2.nix"}))
    /\ merged[1].err_eq = Some(Diff(EmptyLog, MsgSyntax :> {"f2.nix"}))
    /\ merged[1].warn_eq = diffs[3].warn_eq /\ diffs[3].warn_eq # None

\* The first of the ParserDiffs merged so far that carries the facet, if any.
Earliest(carrying) == CHOOSE i \in carrying : \A k \in carrying : i <= k
PassCarrying == {i \in 1..(idx - 1) : diffs[i].pass_eq # None}
ExitCarrying == {i \in 1..(idx - 1) : diffs[i].exit_eq # None}

\* C21: after every merge of the fold, the accumulator's pass_eq (exit_eq) is
\* absent iff no ParserDiff merged so far carries one, and otherwise is the one
\* of the earliest ParserDiff that carries one; a value the accumulator holds is
\* never replaced by a later merge.
C21_FirstWinsFacets ==
    Folding =>
        /\ merged[1].pass_eq = None <=> PassCarrying = {}
        /\ PassCarrying # {} => merged[1].pass_eq = diffs[Earliest(PassCarrying)].pass_eq
        /\ merged[1].exit_eq = None <=> ExitCarrying = {}
        /\ ExitCarrying # {} => merged[1].exit_eq = diffs[Earliest(ExitCarrying)].exit_eq

\* The first file differs in warnings only; the second and the third carry
\* different pass_eq and exit_eq: the second file's are kept.
C21_Witness ==
    /\ FoldDone
    /\ outputs = <<FWarn, FErrA, ScErrDiff>>
    /\ diffs[1].pass_eq = None /\ diffs[1].exit_eq = None
    /\ diffs[3].pass_eq = Some(Diff(TRUE, FALSE)) /\ diffs[3].exit_eq = Some(Diff(Some(0), Some(1)))
    /\ merged[1].pass_eq = Some(Diff(FALSE, TRUE))
    /\ merged[1].exit_eq = Some(Diff(Some(1), Some(0)))

NoEmptyFinds(log) == \A m \in DOMAIN log : log[m] # {}
NoEmptyFindsIn(facet) ==
    facet # None => NoEmptyFinds(facet[1].result_a) /\ NoEmptyFinds(facet[1].result_b)
LogsOf(f, ran) == split_stderr(ran.out.stderr, Path(f))

\* C22: no CompLog maps a message to an empty set of positions: not the three
\* CompLogs split_stderr returns for either parser's stderr of a file, not the
\* two sides of a facet Diff::from builds from them, and not the two sides of a
\* facet of the accumulator after any number of merges.
C22_NoEmptyFinds ==
    /\ pc \in {"DiffResult::from", "reduce"} =>
          \A f \in DOMAIN outputs :
              /\ \A ran \in {outputs[f].a, outputs[f].b} :
                    /\ NoEmptyFinds(LogsOf(f, ran).err)
                    /\ NoEmptyFinds(LogsOf(f, ran).warn)
                    /\ NoEmptyFinds(LogsOf(f, ran).trace)
              /\ NoEmptyFindsIn(diffs[f].err_eq)
              /\ NoEmptyFindsIn(diffs[f].warn_eq)
              /\ NoEmptyFindsIn(diffs[f].trace_eq)
    /\ Folding =>
          /\ NoEmptyFindsIn(merged[1].err_eq)
          /\ NoEmptyFindsIn(merged[1].warn_eq)
          /\ NoEmptyFindsIn(merged[1].trace_eq)

\* A message both parsers gave, one of them at one more position, merged with a
\* file where parser A alone gave another message.
C22_Witness ==
    /\ Folding /\ idx = 3
    /\ outputs = <<FPartial, FTwoKeys>>
    /\ LogsOf(1, outputs[1].a).err = (MsgSyntax :> {"f1.nix", "lib.nix"})
    /\ diffs[1].err_eq = Some(Diff(MsgSyntax :> {"lib.nix"}, EmptyLog))
    /\ merged[1].err_eq = Some(Diff(MsgSyntax :> {"lib.nix"} @@ MsgOther :> {"f2.nix"}, EmptyLog))

\* C24 (as claimed): a ParserDiff that diff_file returns has at least one of its
\* six facets, also when the two stderrs differ only in the order or the
\* repetition of the same records.
C24_NoEmptyRecord ==
    ReturnedDiff =>
        \/ TheDiff.pass_eq # None \/ TheDiff.exit_eq # None \/ TheDiff.stdout_eq # None
        \/ TheDiff.err_eq # None \/ TheDiff.warn_eq # None \/ TheDiff.trace_eq # None

Handed == {f \in Files : task[f] # "queued"}
Completed == {f \in Files : task[f] = "done"}
\* the ParserDiffs of the completed files that returned Ok(Some), each as often
\* as such files yield it
CollectedSoFar ==
    /\ \A i \in 1..Len(diffs) : \E f \in Completed : DiffOf(f) = FileOk(Some(diffs[i]))
    /\ \A f \in Completed :
          DiffOf(f).tag = "Ok" /\ IsSome(DiffOf(f).val) =>
              Count(diffs, Unwrap(DiffOf(f).val)) =
                  Cardinality({g \in Completed : DiffOf(g) = DiffOf(f)})

\* C23 (as claimed): the files are handed to diff_file one by one, each once;
\* DiffResult::from has not run while a task is outstanding; and an execution of
\* diff_parsers that is over without having been dropped by its caller is one
\* in which every file's task completed and DiffResult::from ran on exactly the
\* ParserDiffs of the tasks that returned Ok(Some).
C23_PipelineCompleteness ==
    /\ Handed = {f \in Files : f < next}
    /\ run = "running" => result = None /\ CollectedSoFar
    /\ run \notin {"running", "cancelled"} =>
          /\ Completed = Files
          /\ CollectedSoFar
          /\ result = Some(DiffResultFrom(diffs))
=============================================================================
